---- MODULE Spec2Model ----
(***************************************************************************)
(* A model of cogs/ai.py (LumiCog): the per-user conversation window, the  *)
(* dispatch policy of on_message, the handler process_message with its     *)
(* suspension points, the completion client call_groq_api, and the admin   *)
(* commands addchannel / removechannel / reset over the allowed_channels   *)
(* table and the in-memory history.                                        *)
(*                                                                         *)
(* Every on_message event runs as its own task of one event loop: tasks    *)
(* interleave at their awaits (the typing indicator, message.reply) and    *)
(* nowhere else; requests.post is a blocking call, so nothing else runs    *)
(* while a completion request is in flight.                                *)
(***************************************************************************)
EXTENDS Integers, Sequences, FiniteSets, TLC

VARIABLES
    conversation_history,  \* self.conversation_history: user id -> list of turns
    allowed_channels,      \* rows of table allowed_channels
    usage_stats,           \* rows of table usage_stats, in insertion (id) order
    handlers,              \* the process_message tasks in flight, by slot
    queue,                 \* the slots in flight, in the order their messages arrived
    last_msg,              \* the message event on_message has just decided, and how
    ended,                 \* the process_message task that has just ended, and how
    last_cmd,              \* the admin command that has just run and what it sent
    last_edit              \* per (guild, channel): the last successful edit of its row

vars == <<conversation_history, allowed_channels, usage_stats, handlers, queue,
          last_msg, ended, last_cmd, last_edit>>

(***************************************************************************)
(* The bound of the model and the small input sets.                        *)
(***************************************************************************)
MaxUsage == 1

Users == {"u1", "u2"}
BOT == "bot"
Authors == Users \cup {BOT}
Guilds == {"g1", "g2"}
Channels == {"c1", "c2"}
NoGuild == "None"
NoChannel == "None"
DMChannelId == "d0"
Times == {"t1", "t2"}
Slots == {1, 2}

(***************************************************************************)
(* Text is a sequence of atoms; the bot's mention token is one atom.       *)
(***************************************************************************)
MENTION == "<@bot>"
Whitespace == {" ", "\n"}
Contents == { <<"yo">>, <<" ", MENTION, " ", "hi", "\n">> }
Replies == { <<"hey!">> }

\* __init__, lines 17-21
max_history == 3
system_prompt == [role |-> "system", content |-> <<"You are Lumi">>]

\* call_groq_api, lines 221 and 224; process_message, line 190
API_ERROR_TEXT ==
    <<"Sorry, I couldn't generate a response right now. Try again later?">>
NETWORK_ERROR_TEXT == <<"Network error occurred. Please try again later.">>
OOPS_TEXT == <<"Oops! Something went wrong. Try again in a bit?">>

\* the ways the request of call_groq_api can end: status 200 with a well-formed
\* body, another status, an exception of requests.post, a body without
\* choices[0].message.content
Outcomes == {"ok", "http_error", "timeout", "malformed"}

(***************************************************************************)
(* Pure helpers.                                                           *)
(***************************************************************************)
\* list[-n:]
LastN(w, n) == IF Len(w) <= n THEN w ELSE SubSeq(w, Len(w) - n + 1, Len(w))

\* str.replace(token, '')
RemoveAll(text, token) == SelectSeq(text, LAMBDA a : a # token)

RECURSIVE LStrip(_)
LStrip(text) ==
    IF text # <<>> /\ Head(text) \in Whitespace THEN LStrip(Tail(text)) ELSE text

RECURSIVE RStrip(_)
RStrip(text) ==
    IF text # <<>> /\ text[Len(text)] \in Whitespace
    THEN RStrip(SubSeq(text, 1, Len(text) - 1))
    ELSE text

\* str.strip()
Strip(text) == RStrip(LStrip(text))

\* line 143: message.content.replace(f'<@{self.bot.user.id}>', '').strip()
Clean(content) == Strip(RemoveAll(content, MENTION))

RECURSIVE TextLen(_)
\* len(str): the atoms' lengths added up
TextLen(text) == IF text = <<>> THEN 0 ELSE Len(Head(text)) + TextLen(Tail(text))

\* lines 139-140: create the user's list on first use
EnsureWindow(h, uid) ==
    IF uid \in DOMAIN h THEN h
    ELSE [u \in DOMAIN h \cup {uid} |-> IF u = uid THEN <<>> ELSE h[u]]

\* Trim with the eviction left out
Trim_NoEviction(w) == w

\* lines 152-153 and 172-173: keep only the last max_history entries
Trim(w) == IF Len(w) > max_history THEN LastN(w, max_history) ELSE w

\* lines 146-153 and 166-173: append a turn, then trim
AppendTurn(h, uid, role, text) ==
    [h EXCEPT ![uid] = Trim(Append(@, [role |-> role, content |-> text]))]

\* BuildMessages with the system prompt left out
BuildMessages_NoSystem(h, uid) == h[uid]

\* lines 156-157: messages = [system_prompt] + history
BuildMessages(h, uid) == <<system_prompt>> \o h[uid]

\* call_groq_api, lines 209-224: the text returned for each outcome of the request
call_groq_api(outcome, reply) ==
    CASE outcome = "ok" -> reply
      [] outcome = "http_error" -> API_ERROR_TEXT
      [] OTHER -> NETWORK_ERROR_TEXT

\* is_channel_allowed, lines 64-68: SELECT COUNT(*) ... > 0
RowsIn(rows, g, c) == {r \in rows : r.guild_id = g /\ r.channel_id = c}
RowsFor(g, c) == RowsIn(allowed_channels, g, c)
\* is_channel_allowed with a WHERE clause on guild_id alone
is_channel_allowed_AnyChannel(g, c) ==
    Cardinality({r \in allowed_channels : r.guild_id = g}) > 0

is_channel_allowed(g, c) == Cardinality(RowsFor(g, c)) > 0

(***************************************************************************)
(* Messages and handlers.                                                  *)
(***************************************************************************)
NoMsg == [author |-> BOT, guild |-> NoGuild, channel |-> NoChannel,
          mentioned |-> FALSE, content |-> <<>>]

GuildMessages ==
    { [author |-> a, guild |-> g, channel |-> c, mentioned |-> m, content |-> t] :
        a \in Authors, g \in Guilds, c \in Channels, m \in BOOLEAN, t \in Contents }
DirectMessages ==
    { [author |-> a, guild |-> NoGuild, channel |-> DMChannelId, mentioned |-> m,
       content |-> t] : a \in Authors, m \in BOOLEAN, t \in Contents }

\* isinstance(message.channel, nextcord.DMChannel)
IsDM(m) == m.guild = NoGuild

\* what process_message reads of its message: author, guild, channel, content
Read(m) == [author |-> m.author, guild |-> m.guild, channel |-> m.channel,
            content |-> m.content]
IdleHandler == [pc |-> "idle", msg |-> Read(NoMsg), fresh |-> FALSE,
                clean_content |-> <<>>, messages |-> <<>>, outcome |-> "none",
                response |-> <<>>, error |-> "none", sent |-> <<>>]
NoEnd == [how |-> "none", handler |-> IdleHandler]
NoDecision == [msg |-> NoMsg, lookup |-> "none", result |-> "none"]
NoCmd == [cmd |-> "none", guild |-> NoGuild, channel |-> NoChannel,
          user |-> BOT, before |-> 0, report |-> "none"]

FreeSlots == {s \in Slots : handlers[s].pc = "idle"}
NextSlot == CHOOSE s \in FreeSlots : \A t \in FreeSlots : s <= t
Without(q, s) == SelectSeq(q, LAMBDA x : x # s)

\* requests.post blocks the event loop
Blocked == \E s \in Slots : handlers[s].pc = "calling"
\* the event loop is between two steps of its tasks
Settled == last_msg = NoDecision /\ ended = NoEnd /\ last_cmd = NoCmd
Ready == Settled /\ ~Blocked

Init ==
    /\ conversation_history = <<>>
    /\ allowed_channels = {}
    /\ usage_stats = <<>>
    /\ handlers = [s \in Slots |-> IdleHandler]
    /\ queue = <<>>
    /\ last_msg = NoDecision
    /\ ended = NoEnd
    /\ last_cmd = NoCmd
    /\ last_edit = [k \in Guilds \X Channels |-> "none"]

\* on_message, lines 124-129: whether is_channel_allowed is called for m (the
\* `or` of line 128 is short-circuit), and whether its SELECT succeeds
Lookup(m, lookup_ok) ==
    IF m.author = BOT \/ IsDM(m) \/ m.mentioned THEN "none"
    ELSE IF lookup_ok THEN "ok" ELSE "failed"

\* Dispatch without the check of lines 114-115
Dispatch_NoSelfCheck(m, lookup_ok) ==
    IF IsDM(m) THEN "dispatched"
    ELSE IF m.mentioned THEN "dispatched"
    ELSE IF ~lookup_ok THEN "raised"
    ELSE IF is_channel_allowed(m.guild, m.channel) THEN "dispatched"
    ELSE "ignored"

\* on_message, lines 112-130: the decision taken for message m; lookup_ok says
\* whether the SELECT of is_channel_allowed succeeds ("raised": it does not, and
\* the exception leaves on_message)
Dispatch(m, lookup_ok) ==
    IF m.author = BOT THEN "ignored"
    ELSE IF IsDM(m) THEN "dispatched"
    ELSE IF m.mentioned THEN "dispatched"
    ELSE IF ~lookup_ok THEN "raised"
    ELSE IF is_channel_allowed(m.guild, m.channel) THEN "dispatched"
    ELSE "ignored"

\* on_message runs up to the first suspension, the typing indicator of line 134
on_message(m, lookup_ok) ==
    /\ Ready
    /\ FreeSlots # {}
    /\ last_msg' = [msg |-> m, lookup |-> Lookup(m, lookup_ok),
                     result |-> Dispatch(m, lookup_ok)]
    /\ IF Dispatch(m, lookup_ok) = "dispatched"
       THEN /\ handlers' = [handlers EXCEPT ![NextSlot] =
                   [IdleHandler EXCEPT !.pc = "typing", !.msg = Read(m)]]
            /\ queue' = Append(queue, NextSlot)
       ELSE UNCHANGED <<handlers, queue>>
    /\ UNCHANGED <<conversation_history, allowed_channels, usage_stats, ended,
                   last_cmd, last_edit>>

\* process_message, lines 136-160: from the typing indicator to the request
process_message(s) ==
    /\ Ready
    /\ handlers[s].pc = "typing"
    /\ LET m == handlers[s].msg
           user_id == m.author
           h0 == EnsureWindow(conversation_history, user_id)
           clean_content == Clean(m.content)
           h1 == AppendTurn(h0, user_id, "user", clean_content)
       IN /\ conversation_history' = h1
          /\ handlers' = [handlers EXCEPT ![s] =
                 [@ EXCEPT !.pc = "calling",
                           !.clean_content = clean_content,
                           !.fresh = user_id \notin DOMAIN conversation_history,
                           !.messages = BuildMessages(h1, user_id)]]
    /\ UNCHANGED <<allowed_channels, usage_stats, queue, last_msg, ended, last_cmd,
                   last_edit>>

\* call_groq_api returns, lines 160-163; message.reply(response) is awaited
call_returns(s, outcome, reply) ==
    /\ Settled
    /\ handlers[s].pc = "calling"
    /\ handlers' = [handlers EXCEPT ![s] =
           [@ EXCEPT !.pc = "replying",
                     !.msg = [@ EXCEPT !.content = <<>>],
                     !.messages = <<>>,
                     !.outcome = outcome,
                     !.response = call_groq_api(outcome, reply)]]
    /\ UNCHANGED <<conversation_history, allowed_channels, usage_stats, queue,
                   last_msg, ended, last_cmd, last_edit>>

\* log_usage, lines 95-102: the row inserted
UsageRow(m, clean_content, response) ==
    [user_id |-> m.author,
     guild_id |-> IF m.guild # NoGuild THEN m.guild ELSE "DM",
     channel_id |-> m.channel,
     message_length |-> TextLen(clean_content),
     response_length |-> TextLen(response)]

\* an except branch that takes back the reply already sent
Apologising_TakesBack(error, sent) ==
    [IdleHandler EXCEPT !.pc = "apologising", !.error = error]

\* process_message, lines 187-190: the except branch awaits its own reply; of
\* the task's locals the model keeps e (the call that raised) and what was sent
Apologising(error, sent) ==
    [IdleHandler EXCEPT !.pc = "apologising", !.error = error, !.sent = sent]

\* AfterReply with the append of lines 166-173 placed before the reply of line 163
AfterReply_AppendsFirst(h, user_id, response, reply_ok) ==
    AppendTurn(h, user_id, "assistant", response)

\* lines 163-173: the history once message.reply(response) has returned or
\* raised; the assistant turn is appended only after the reply was sent
AfterReply(h, user_id, response, reply_ok) ==
    IF reply_ok THEN AppendTurn(h, user_id, "assistant", response) ELSE h

\* process_message, lines 163-190: message.reply(response) returns or raises; on
\* return the assistant turn is appended and the usage row inserted
reply_returns(s, reply_ok, log_ok) ==
    /\ Ready
    /\ handlers[s].pc = "replying"
    /\ log_ok => Len(usage_stats) < MaxUsage
    /\ LET m == handlers[s].msg
           user_id == m.author
           response == handlers[s].response
       IN /\ conversation_history' =
                 AfterReply(conversation_history, user_id, response, reply_ok)
          /\ IF ~reply_ok
             THEN /\ handlers' = [handlers EXCEPT ![s] = Apologising("reply", <<>>)]
                  /\ UNCHANGED <<usage_stats, queue, ended>>
             ELSE IF log_ok
             THEN /\ usage_stats' =
                         Append(usage_stats,
                                UsageRow(m, handlers[s].clean_content, response))
                  /\ ended' = [how |-> "returned", handler |->
                         [handlers[s] EXCEPT !.sent = Append(@, response)]]
                  /\ handlers' = [handlers EXCEPT ![s] = IdleHandler]
                  /\ queue' = Without(queue, s)
             ELSE /\ handlers' = [handlers EXCEPT ![s] =
                         Apologising("log_usage", <<response>>)]
                  /\ UNCHANGED <<usage_stats, queue, ended>>
    /\ UNCHANGED <<allowed_channels, last_msg, last_cmd, last_edit>>

\* process_message, lines 187-190: the reply of the except branch returns or raises
apology_returns(s, reply_ok) ==
    /\ Ready
    /\ handlers[s].pc = "apologising"
    /\ ended' = [how |-> IF reply_ok THEN "returned" ELSE "raised",
                 handler |-> [handlers[s] EXCEPT
                     !.sent = IF reply_ok THEN Append(@, OOPS_TEXT) ELSE @]]
    /\ handlers' = [handlers EXCEPT ![s] = IdleHandler]
    /\ queue' = Without(queue, s)
    /\ UNCHANGED <<conversation_history, allowed_channels, usage_stats, last_msg,
                   last_cmd, last_edit>>

\* Upsert as a plain INSERT into a table without the primary key
Upsert_PlainInsert(rows, row) == rows \cup {row}

\* the rows left by INSERT OR REPLACE of row (lines 247-254): the primary key
\* (guild_id, channel_id) keeps one row
Upsert(rows, row) ==
    {r \in rows : ~(r.guild_id = row.guild_id /\ r.channel_id = row.channel_id)}
        \cup {row}

\* the rows left by DELETE ... WHERE guild_id = ? AND channel_id = ? (lines 282-285)
Delete(rows, g, c) == {r \in rows : ~(r.guild_id = g /\ r.channel_id = c)}

\* lines 235-236 and 272-273: the channel given, or else the current channel
TargetChannel(ctx_channel, channel) ==
    IF channel = NoChannel THEN ctx_channel ELSE channel

\* add_channel, lines 228-261, run by an administrator; store says how the
\* database answers: "ok", "connect_error" (sqlite3.connect of line 243 raises,
\* outside the try) or "execute_error" (execute or commit raises, inside it)
add_channel(ctx_guild, ctx_channel, channel, author, now, store) ==
    /\ Ready
    /\ LET target == TargetChannel(ctx_channel, channel)
           row == [guild_id |-> ctx_guild, channel_id |-> target,
                   added_by |-> author, added_at |-> now]
           cmd == [cmd |-> "addchannel", guild |-> ctx_guild, channel |-> target,
                   user |-> author, before |-> Cardinality(RowsFor(ctx_guild, target)),
                   report |-> "none"]
       IN IF ctx_guild = NoGuild
          THEN /\ last_cmd' = [cmd EXCEPT !.channel = NoChannel, !.before = 0,
                                          !.report = "servers_only"]
               /\ UNCHANGED <<allowed_channels, last_edit>>
          ELSE IF store = "ok"
          THEN /\ allowed_channels' = Upsert(allowed_channels, row)
               /\ last_cmd' = [cmd EXCEPT !.report = "added"]
               /\ last_edit' = [last_edit EXCEPT ![<<ctx_guild, target>>] = "add"]
          ELSE /\ UNCHANGED <<allowed_channels, last_edit>>
               /\ last_cmd' = [cmd EXCEPT !.report =
                      IF store = "connect_error" THEN "error_occurred"
                      ELSE "error_adding"]
    /\ UNCHANGED <<conversation_history, usage_stats, handlers, queue, last_msg,
                   ended>>

\* RemoveReport with rowcount >= 0 for the test of line 288
RemoveReport_AlwaysFound(rowcount) == "removed"

\* lines 288-291: what remove_channel sends after the DELETE, by cursor.rowcount
RemoveReport(rowcount) == IF rowcount > 0 THEN "removed" ELSE "not_in_list"

\* remove_channel, lines 265-295, run by an administrator
remove_channel(ctx_guild, ctx_channel, channel, author, store) ==
    /\ Ready
    /\ LET target == TargetChannel(ctx_channel, channel)
           rowcount == Cardinality(RowsFor(ctx_guild, target))
           cmd == [cmd |-> "removechannel", guild |-> ctx_guild, channel |-> target,
                   user |-> author, before |-> rowcount, report |-> "none"]
       IN IF ctx_guild = NoGuild
          THEN /\ last_cmd' = [cmd EXCEPT !.channel = NoChannel, !.before = 0,
                                          !.report = "servers_only"]
               /\ UNCHANGED <<allowed_channels, last_edit>>
          ELSE IF store = "ok"
          THEN /\ allowed_channels' = Delete(allowed_channels, ctx_guild, target)
               /\ last_cmd' = [cmd EXCEPT !.report = RemoveReport(rowcount)]
               /\ last_edit' = [last_edit EXCEPT ![<<ctx_guild, target>>] = "remove"]
          ELSE /\ UNCHANGED <<allowed_channels, last_edit>>
               /\ last_cmd' = [cmd EXCEPT !.report =
                      IF store = "connect_error" THEN "error_occurred"
                      ELSE "error_removing"]
    /\ UNCHANGED <<conversation_history, usage_stats, handlers, queue, last_msg,
                   ended>>

\* ResetWindow that assigns the empty list whether or not the user is known
ResetWindow_Creates(h, target) ==
    [u \in DOMAIN h \cup {target} |-> IF u = target THEN <<>> ELSE h[u]]

\* ResetWindow that clears the whole dictionary of a known user's reset
ResetWindow_ClearsAll(h, target) == IF target \in DOMAIN h THEN <<>> ELSE h

\* lines 388-392: the history after reset of target
ResetWindow(h, target) == IF target \in DOMAIN h THEN [h EXCEPT ![target] = <<>>] ELSE h

\* lines 388-392: what reset sends
ResetReport(h, target) == IF target \in DOMAIN h THEN "reset" ELSE "no_history"

\* reset_history, lines 383-392, run by an administrator; user is the member
\* given, or BOT for none
reset_history(author, user) ==
    /\ Ready
    /\ LET target == IF user = BOT THEN author ELSE user
       IN /\ conversation_history' = ResetWindow(conversation_history, target)
          /\ last_cmd' = [cmd |-> "reset", guild |-> NoGuild, channel |-> NoChannel,
                 user |-> target,
                 before |-> IF target \in DOMAIN conversation_history
                            THEN Len(conversation_history[target]) ELSE -1,
                 report |-> ResetReport(conversation_history, target)]
    /\ UNCHANGED <<allowed_channels, usage_stats, handlers, queue, last_msg, ended,
                   last_edit>>

\* the event loop goes on to its next step
loop_continues ==
    /\ ~Settled
    /\ last_msg' = NoDecision
    /\ ended' = NoEnd
    /\ last_cmd' = NoCmd
    /\ UNCHANGED <<conversation_history, allowed_channels, usage_stats, handlers,
                   queue, last_edit>>

(***************************************************************************)
(* Spec: a member in conversation with the bot in direct messages, two     *)
(* messages in flight at most; every outcome of the completion request,    *)
(* of the replies and of the usage insert; the bot's own messages come     *)
(* back as events; an administrator resets histories.                      *)
(***************************************************************************)
Writers == {"u1", BOT}
Inbound == {m \in DirectMessages : m.author \in Writers}

Next ==
    \/ \E m \in Inbound : on_message(m, TRUE)
    \/ \E s \in Slots : process_message(s)
    \/ \E s \in Slots, o \in Outcomes, r \in Replies : call_returns(s, o, r)
    \/ \E s \in Slots, rok \in BOOLEAN, lok \in BOOLEAN : reply_returns(s, rok, lok)
    \/ \E s \in Slots, rok \in BOOLEAN : apology_returns(s, rok)
    \/ \E u \in Users \cup {BOT} : reset_history("u1", u)
    \/ loop_continues

Spec == Init /\ [][Next]_vars

(***************************************************************************)
(* SpecDispatch: members write in guild channels and in direct messages    *)
(* while administrators edit the allow-list of guild g1; one message is    *)
(* handled at a time and its completion succeeds.                          *)
(***************************************************************************)
InboundAnywhere ==
    {m \in DirectMessages \cup GuildMessages :
        m.author \in Writers /\ m.content = <<"yo">>}

NextDispatch ==
    \/ \E m \in InboundAnywhere, ok \in BOOLEAN : queue = <<>> /\ on_message(m, ok)
    \/ \E s \in Slots : process_message(s)
    \/ \E s \in Slots, r \in Replies : call_returns(s, "ok", r)
    \/ \E s \in Slots, lok \in BOOLEAN : reply_returns(s, TRUE, lok)
    \/ \E s \in Slots : apology_returns(s, TRUE)
    \/ \E g \in Guilds, c \in Channels :
           add_channel(g, "c1", c, "u1", "t1", "ok")
    \/ \E g \in Guilds, c \in Channels :
           remove_channel(g, "c1", c, "u1", "ok")
    \/ loop_continues

SpecDispatch == Init /\ [][NextDispatch]_vars

(***************************************************************************)
(* SpecStore: administrators edit the allow-list, from guilds and from     *)
(* direct messages, with every answer of the database.                     *)
(***************************************************************************)
StoreAnswers == {"ok", "connect_error", "execute_error"}

NextStore ==
    \/ \E g \in Guilds \cup {NoGuild}, cc \in Channels, c \in Channels \cup {NoChannel},
          a \in Users, t \in Times, st \in StoreAnswers :
           add_channel(g, cc, c, a, t, st)
    \/ \E g \in Guilds \cup {NoGuild}, cc \in Channels, c \in Channels \cup {NoChannel},
          a \in Users, st \in StoreAnswers :
           remove_channel(g, cc, c, a, st)
    \/ loop_continues

SpecStore == Init /\ [][NextStore]_vars

(***************************************************************************)
(* SpecUsers: two members in conversation with the bot in direct messages  *)
(* at the same time, completions succeeding, replies and usage inserts     *)
(* succeeding or failing; each member may reset the own history or the     *)
(* other's.                                                                *)
(***************************************************************************)
InboundUsers ==
    {m \in DirectMessages :
        m.author \in Users /\ m.content = <<"yo">> /\ ~m.mentioned}

NextUsers ==
    \/ \E m \in InboundUsers : on_message(m, TRUE)
    \/ \E s \in Slots : process_message(s)
    \/ \E s \in Slots, r \in Replies : call_returns(s, "ok", r)
    \/ \E s \in Slots, rok \in BOOLEAN, lok \in BOOLEAN : reply_returns(s, rok, lok)
    \/ \E s \in Slots : apology_returns(s, TRUE)
    \/ \E a \in Users, u \in Users \cup {BOT} : reset_history(a, u)
    \/ loop_continues

SpecUsers == Init /\ [][NextUsers]_vars

(***************************************************************************)
(* The claims.                                                             *)
(***************************************************************************)
Window(h, u) == IF u \in DOMAIN h THEN h[u] ELSE <<>>
Turn(role, text) == [role |-> role, content |-> text]
InFlight(s) == handlers[s].pc \in {"typing", "calling", "replying"}

\* C1: in every reachable state every user's window holds at most
\* 2 * max_history (6) entries.
C1_WindowBound ==
    \A u \in DOMAIN conversation_history :
        Len(conversation_history[u]) <= 2 * max_history

\* a task has just returned after appending its assistant turn to a window that
\* already held turns, and the window is as long as it ever gets
C1_Witness ==
    /\ ended.how = "returned"
    /\ ended.handler.pc = "replying"
    /\ ~ended.handler.fresh
    /\ Len(Window(conversation_history, ended.handler.msg.author)) = max_history
    /\ conversation_history[ended.handler.msg.author][1].role = "assistant"

\* C2: after each append to a user's window the window is exactly the most
\* recent min(total, 2 * max_history) turns appended, in their order: every
\* append yields the old window with the turn added, cut to its last
\* 2 * max_history entries.
C2_FifoWindow ==
    [][\A u \in DOMAIN conversation_history' :
        LET old == Window(conversation_history, u)
            new == conversation_history'[u]
        IN (new # old /\ new # <<>> /\ last_cmd' = NoCmd)
               => new = LastN(Append(old, new[Len(new)]), 2 * max_history)]_vars

\* C3: when the completion call of a message failed, the step that ends the
\* await of its reply appends nothing to any window (the fallback text is not
\* stored as an assistant turn).
C3_FailedTurnNotStored ==
    [][\A s \in Slots :
        (/\ handlers[s].pc = "replying"
         /\ handlers[s].outcome # "ok"
         /\ handlers'[s].pc # "replying")
            => conversation_history' = conversation_history]_vars

\* C4: a message not written by the bot is dispatched iff it is a direct
\* message, or mentions the bot, or its (guild, channel) is in the allow-list
\* at that time.
C4_DispatchIff ==
    (last_msg.result # "none" /\ last_msg.msg.author # BOT)
        => (last_msg.result = "dispatched"
                <=> \/ IsDM(last_msg.msg)
                    \/ last_msg.msg.mentioned
                    \/ is_channel_allowed(last_msg.msg.guild, last_msg.msg.channel))

SystemTurns(msgs) == {i \in DOMAIN msgs : msgs[i].role = "system"}

\* C5: every message list sent to the completion client starts with the system
\* turn, holds exactly one system turn, and goes on with the user's window as it
\* is right after the new user turn was appended, once, at its end; no window
\* ever holds a system turn.
C5_Prompt ==
    /\ [](/\ \A u \in DOMAIN conversation_history :
               \A i \in DOMAIN conversation_history[u] :
                   conversation_history[u][i].role # "system"
          /\ \A s \in Slots : handlers[s].pc = "calling" =>
               LET msgs == handlers[s].messages
               IN /\ msgs # <<>>
                  /\ msgs[1] = system_prompt
                  /\ SystemTurns(msgs) = {1}
                  /\ Tail(msgs) = conversation_history[handlers[s].msg.author])
    /\ [][\A s \in Slots :
            (handlers[s].pc = "typing" /\ handlers'[s].pc = "calling") =>
                LET u == handlers[s].msg.author
                    new == conversation_history'[u]
                    turn == Turn("user", Clean(handlers[s].msg.content))
                IN /\ new # <<>>
                   /\ new = LastN(Append(Window(conversation_history, u), turn),
                                  Len(new))
                   /\ Tail(handlers'[s].messages) = new]_vars

\* a request is in flight whose message list is the system turn and a window
\* that had to be trimmed
C5_Witness ==
    \E s \in Slots :
        /\ handlers[s].pc = "calling"
        /\ Len(handlers[s].messages) = max_history + 1
        /\ handlers[s].messages[2].role = "assistant"

\* C6: for a user with no window, a first direct message with text t whose
\* completion succeeds with text r has the prompt [system, {user, t}] sent and
\* leaves the window [{user, t}, {assistant, r}] when its handling ends (t as
\* cleaned by line 143).
C6_FirstExchange ==
    /\ \A s \in Slots : (handlers[s].pc = "calling" /\ handlers[s].fresh) =>
           handlers[s].messages =
               <<system_prompt, Turn("user", Clean(handlers[s].msg.content))>>
    /\ (ended.how = "returned" /\ ended.handler.fresh /\ ended.handler.outcome = "ok")
           => Window(conversation_history, ended.handler.msg.author) =
                  << Turn("user", ended.handler.clean_content),
                     Turn("assistant", ended.handler.response) >>

\* C7: two messages of one user are processed in arrival order: the later one
\* does not append its user turn while the earlier one has not appended both
\* of its turns.
C7_ArrivalOrder ==
    \A i, j \in DOMAIN queue :
        (/\ i < j
         /\ handlers[queue[i]].msg.author = handlers[queue[j]].msg.author)
            => ~(/\ InFlight(queue[i])
                 /\ handlers[queue[j]].pc \in {"calling", "replying"})

\* C8: in every reachable state no two adjacent entries of a window have the
\* same role.
C8_Alternating ==
    \A u \in DOMAIN conversation_history :
        \A i \in 1..(Len(conversation_history[u]) - 1) :
            conversation_history[u][i].role # conversation_history[u][i + 1].role

\* C9: reset of a user who has no window sends "no history" and changes no
\* state, no window being created; reset of a user whose window holds a turn
\* or more empties that window, sends "reset", and the window read next is
\* empty.
C9_Reset ==
    [][(last_cmd = NoCmd /\ last_cmd'.cmd = "reset") =>
        LET u == last_cmd'.user
        IN /\ u \notin DOMAIN conversation_history =>
                 /\ last_cmd'.report = "no_history"
                 /\ UNCHANGED <<conversation_history, allowed_channels, usage_stats,
                                handlers, queue>>
           /\ (u \in DOMAIN conversation_history /\ conversation_history[u] # <<>>) =>
                 /\ last_cmd'.report = "reset"
                 /\ u \in DOMAIN conversation_history'
                 /\ conversation_history'[u] = <<>>]_vars

\* reset has just emptied a window that held turns
C9_Witness ==
    /\ last_cmd.cmd = "reset"
    /\ last_cmd.report = "reset"
    /\ last_cmd.before >= 1
    /\ Window(conversation_history, last_cmd.user) = <<>>
    /\ last_cmd.user \in DOMAIN conversation_history

\* C10: with the store answering, is_channel_allowed(g, c) holds iff the last
\* add or remove of (g, c) was an add; a key never has two rows; a command on
\* (g, c) leaves the rows of every other key as they were.
C10_AllowList ==
    /\ [](\A g \in Guilds, c \in Channels :
            /\ is_channel_allowed(g, c) <=> last_edit[<<g, c>>] = "add"
            /\ Cardinality(RowsFor(g, c)) <= 1)
    /\ [][(last_cmd = NoCmd /\ last_cmd' # NoCmd) =>
            \A g \in Guilds, c \in Channels :
                <<g, c>> # <<last_cmd'.guild, last_cmd'.channel>> =>
                    RowsIn(allowed_channels', g, c) = RowsFor(g, c)]_vars

\* addchannel has just replaced the row of a key that was already present, by
\* another administrator, while another key has its row
C10_Witness ==
    /\ last_cmd.cmd = "addchannel"
    /\ last_cmd.report = "added"
    /\ last_cmd.before = 1
    /\ RowsFor(last_cmd.guild, last_cmd.channel) =
           {r \in allowed_channels : r.guild_id = last_cmd.guild
                                     /\ r.channel_id = last_cmd.channel
                                     /\ r.added_by = last_cmd.user}
    /\ \E r \in allowed_channels :
           <<r.guild_id, r.channel_id>> # <<last_cmd.guild, last_cmd.channel>>

\* C11: whatever the kind of completion failure, the text replied to the user
\* is the same: two replies being sent for failed completions carry one text.
C11_OneFallbackText ==
    \A s, t \in Slots :
        (/\ handlers[s].pc = "replying" /\ handlers[s].outcome # "ok"
         /\ handlers[t].pc = "replying" /\ handlers[t].outcome # "ok")
            => handlers[s].response = handlers[t].response

\* C12: no exception leaves the message handler: on_message does not raise
\* out of the allow-list lookup and process_message does not end by raising.
C12_NoEscape ==
    /\ last_msg.result # "raised"
    /\ ended.how # "raised"

\* C17: each message causes one completion call at most (a handler past its
\* call never calls again) and has at most one reply sent for it, the model
\* reply or an apology and never both.
C17_OneCallOneReply ==
    /\ [](/\ \A s \in Slots : Len(handlers[s].sent) <= 1
          /\ Len(ended.handler.sent) <= 1)
    /\ [][\A s \in Slots :
            handlers[s].pc \in {"replying", "apologising"}
                => handlers'[s].pc # "calling"]_vars

\* C13: when the usage insert fails, the model reply has already been sent and
\* stays sent (the except branch neither takes it back nor puts another text
\* in its place), the assistant turn stays at the end of the window, and the
\* steps that follow the failure leave every window as it is.
C13_BestEffortLog ==
    [][\A s \in Slots :
        /\ (/\ handlers[s].pc = "replying"
            /\ handlers'[s].pc = "apologising"
            /\ handlers'[s].error = "log_usage") =>
               LET w == Window(conversation_history', handlers[s].msg.author)
               IN /\ handlers'[s].sent = <<handlers[s].response>>
                  /\ w # <<>>
                  /\ w[Len(w)] = Turn("assistant", handlers[s].response)
        /\ (/\ handlers[s].pc = "apologising"
            /\ handlers[s].error = "log_usage"
            /\ handlers'[s].pc # "apologising") =>
               /\ conversation_history' = conversation_history
               /\ ended'.handler.sent # <<>>
               /\ ended'.handler.sent[1] = handlers[s].sent[1]]_vars

\* a handler whose usage insert failed has ended; the model reply "hey!" was
\* sent before the apology
C13_Witness ==
    /\ ended.how = "returned"
    /\ ended.handler.error = "log_usage"
    /\ ended.handler.sent = << <<"hey!">>, OOPS_TEXT >>
    /\ usage_stats = <<>>

\* C14: a handler replies only after its completion call returned; the
\* assistant turn is appended only by the step in which the reply was sent and
\* the usage row only after that; when the reply send fails no window and no
\* usage row changes; usage rows are only ever appended, one by each handler
\* that runs to its end.
C14_StepOrder ==
    /\ [](\A s \in Slots :
            /\ handlers[s].pc \in {"typing", "calling"} =>
                   handlers[s].outcome = "none" /\ handlers[s].sent = <<>>
            /\ handlers[s].pc = "replying" =>
                   handlers[s].outcome # "none" /\ handlers[s].sent = <<>>)
    /\ [][\A s \in Slots :
            /\ (/\ handlers[s].pc = "replying"
                /\ handlers'[s].pc = "apologising"
                /\ handlers'[s].error = "reply") =>
                   /\ handlers'[s].sent = <<>>
                   /\ UNCHANGED <<conversation_history, usage_stats>>
            /\ (handlers[s].pc = "replying" /\ handlers'[s].pc = "idle") =>
                   LET w == Window(conversation_history', handlers[s].msg.author)
                       row == usage_stats'[Len(usage_stats')]
                   IN /\ ended'.handler.sent = <<handlers[s].response>>
                      /\ w # <<>>
                      /\ w[Len(w)] = Turn("assistant", handlers[s].response)
                      /\ Len(usage_stats') = Len(usage_stats) + 1
                      /\ row.user_id = handlers[s].msg.author
                      /\ row.channel_id = handlers[s].msg.channel
                      /\ row.response_length = TextLen(handlers[s].response)]_vars
    /\ [][usage_stats' # usage_stats =>
            /\ Len(usage_stats') = Len(usage_stats) + 1
            /\ SubSeq(usage_stats', 1, Len(usage_stats)) = usage_stats
            /\ \E s \in Slots : handlers[s].pc = "replying" /\ handlers'[s].pc = "idle"]_vars
    /\ [][\A u \in DOMAIN conversation_history' :
            LET old == Window(conversation_history, u)
                new == conversation_history'[u]
            IN (new # old /\ new # <<>> /\ new[Len(new)].role = "assistant") =>
                   \E s \in Slots :
                       /\ handlers[s].pc = "replying"
                       /\ handlers[s].msg.author = u
                       /\ new[Len(new)].content = handlers[s].response
                       /\ \/ ended'.handler.sent = <<handlers[s].response>>
                          \/ handlers'[s].sent = <<handlers[s].response>>]_vars

\* a handler has run to its end: its reply was sent, its assistant turn closes
\* the window and its row is in usage_stats
C14_Witness ==
    /\ ended.how = "returned"
    /\ ended.handler.pc = "replying"
    /\ ended.handler.sent = <<ended.handler.response>>
    /\ Len(usage_stats) = 1
    /\ usage_stats[1].user_id = ended.handler.msg.author
    /\ usage_stats[1].message_length = TextLen(ended.handler.clean_content)
    /\ LET w == Window(conversation_history, ended.handler.msg.author)
       IN w # <<>> /\ w[Len(w)] = Turn("assistant", ended.handler.response)

\* C15: a guild message that does not mention the bot and whose channel has no
\* row in the allow-list is not dispatched: the step that handles it starts no
\* handler (so no completion call and no reply), changes and creates no window
\* and appends no usage row.
C15_IgnoredFrame ==
    [][(/\ last_msg = NoDecision
        /\ last_msg' # NoDecision
        /\ ~IsDM(last_msg'.msg)
        /\ ~last_msg'.msg.mentioned
        /\ RowsFor(last_msg'.msg.guild, last_msg'.msg.channel) = {}) =>
            /\ last_msg'.result # "dispatched"
            /\ UNCHANGED <<conversation_history, allowed_channels, usage_stats,
                           handlers, queue>>]_vars

\* a member's message in a channel that is not allow-listed, in a guild that
\* has an allow-listed channel, has just been ignored, the member having a
\* window from earlier messages
C15_Witness ==
    /\ last_msg.result = "ignored"
    /\ last_msg.lookup = "ok"
    /\ last_msg.msg.author # BOT
    /\ ~IsDM(last_msg.msg)
    /\ ~last_msg.msg.mentioned
    /\ RowsFor(last_msg.msg.guild, last_msg.msg.channel) = {}
    /\ \E r \in allowed_channels : r.guild_id = last_msg.msg.guild
    /\ last_msg.msg.author \in DOMAIN conversation_history

\* C19: a message written by the bot is never dispatched, in a direct message
\* or an allow-listed channel, mentioned or not: the step that handles it
\* starts no handler and changes no window and no usage row, and no handler,
\* window or usage row ever belongs to the bot.
C19_BotIgnored ==
    /\ [][(/\ last_msg = NoDecision
           /\ last_msg' # NoDecision
           /\ last_msg'.msg.author = BOT) =>
               /\ last_msg'.result = "ignored"
               /\ UNCHANGED <<conversation_history, allowed_channels, usage_stats,
                              handlers, queue>>]_vars
    /\ [](/\ BOT \notin DOMAIN conversation_history
          /\ \A i \in DOMAIN usage_stats : usage_stats[i].user_id # BOT
          /\ \A s \in Slots : InFlight(s) => handlers[s].msg.author # BOT)

\* a message of the bot in an allow-listed channel has just been ignored
C19_Witness ==
    /\ last_msg.msg.author = BOT
    /\ last_msg.result = "ignored"
    /\ ~IsDM(last_msg.msg)
    /\ RowsFor(last_msg.msg.guild, last_msg.msg.channel) # {}
    /\ handlers = [s \in Slots |-> IdleHandler]

\* C16: removechannel on (g, c) sends "removed" iff a row for (g, c) existed
\* right before it and "not in my allowed list" otherwise; afterwards no row
\* for (g, c) exists, and the rows of other keys are as they were.
C16_RemoveReports ==
    [][(/\ last_cmd = NoCmd
        /\ last_cmd'.cmd = "removechannel"
        /\ last_cmd'.guild # NoGuild) =>
            LET g == last_cmd'.guild
                c == last_cmd'.channel
            IN /\ last_cmd'.report = "removed" <=> RowsFor(g, c) # {}
               /\ last_cmd'.report = "not_in_list" <=> RowsFor(g, c) = {}
               /\ RowsIn(allowed_channels', g, c) = {}
               /\ \A k \in Guilds \X Channels :
                      k # <<g, c>> =>
                          RowsIn(allowed_channels', k[1], k[2]) = RowsFor(k[1], k[2])]_vars

\* C16, amended: removechannel on (g, c) sends "removed", "not in my allowed
\* list" or an error; "removed" only if a row for (g, c) existed right before
\* it, "not in my allowed list" only if none did, and in both cases no row for
\* (g, c) exists afterwards; an error (the store failed) leaves every row as it
\* was; the rows of other keys are as they were in every case.
C16_RemoveReportsOrError ==
    [][(/\ last_cmd = NoCmd
        /\ last_cmd'.cmd = "removechannel"
        /\ last_cmd'.guild # NoGuild) =>
            LET g == last_cmd'.guild
                c == last_cmd'.channel
                report == last_cmd'.report
            IN /\ report \in {"removed", "not_in_list", "error_occurred", "error_removing"}
               /\ report = "removed" =>
                      RowsFor(g, c) # {} /\ RowsIn(allowed_channels', g, c) = {}
               /\ report = "not_in_list" =>
                      RowsFor(g, c) = {} /\ RowsIn(allowed_channels', g, c) = {}
               /\ report \in {"error_occurred", "error_removing"} =>
                      allowed_channels' = allowed_channels
               /\ \A k \in Guilds \X Channels :
                      k # <<g, c>> =>
                          RowsIn(allowed_channels', k[1], k[2]) = RowsFor(k[1], k[2])]_vars

\* removechannel has just deleted the row of its key and reported it, and
\* another key still has its row
C16_Witness ==
    /\ last_cmd.cmd = "removechannel"
    /\ last_cmd.report = "removed"
    /\ last_cmd.before = 1
    /\ RowsFor(last_cmd.guild, last_cmd.channel) = {}
    /\ allowed_channels # {}

\* C18: a step changes or creates the window of a user only if it is a step of
\* a handler of a message of that user or a reset of that user; a window is
\* created only by the step that appends the user turn of a message of its
\* user, and no window is ever removed.
C18_Independent ==
    [][/\ DOMAIN conversation_history \subseteq DOMAIN conversation_history'
       /\ \A u \in DOMAIN conversation_history' :
            (\/ u \notin DOMAIN conversation_history
             \/ conversation_history'[u] # conversation_history[u]) =>
                \/ \E s \in Slots :
                       /\ handlers[s].msg.author = u
                       /\ handlers[s].pc \in {"typing", "replying"}
                       /\ handlers'[s].pc # handlers[s].pc
                \/ /\ last_cmd = NoCmd
                   /\ last_cmd'.cmd = "reset"
                   /\ last_cmd'.user = u
       /\ \A u \in DOMAIN conversation_history' \ DOMAIN conversation_history :
            \E s \in Slots :
                /\ handlers[s].msg.author = u
                /\ handlers[s].pc = "typing"
                /\ handlers'[s].pc = "calling"]_vars

\* u1's window has just been reset while u2 has a window with turns and a
\* message in flight
C18_Witness ==
    /\ last_cmd.cmd = "reset"
    /\ last_cmd.user = "u1"
    /\ last_cmd.before >= 1
    /\ DOMAIN conversation_history = Users
    /\ conversation_history["u1"] = <<>>
    /\ conversation_history["u2"] # <<>>
    /\ \E s \in Slots : InFlight(s) /\ handlers[s].msg.author = "u2"

====
